---- MODULE Spec2Model ----
(***************************************************************************)
(* FinanceTracker: the persistence/history layer (lib/storage.ts), the     *)
(* application state provider (contexts/FinanceContext.tsx) and the        *)
(* recurring-transaction generator (lib/finance-utils.ts).                 *)
(*                                                                         *)
(* Conventions of the model                                                *)
(*  - A "yyyy-MM-dd" string is the triple <<y, m, d>> (m in 1..12); string *)
(*    comparison of two such strings is the lexicographic order of the     *)
(*    triples.  An absent optional date is <<>>.                           *)
(*  - A JavaScript Date is a number of whole days since 2024-01-01 local   *)
(*    time (the time of day of `new Date()` never changes a floor() of     *)
(*    the code in a fixed-offset time zone).                               *)
(*  - A string id is the sequence of the segments that split('-') yields. *)
(*  - localStorage is the record ls; an absent key holds <<>>.  A value    *)
(*    written with JSON.stringify and read with JSON.parse is the value.  *)
(***************************************************************************)
EXTENDS Integers, Sequences, FiniteSets, TLC

\* ------------------------------------------------------------ bounds ----
\* user operations per session started on an empty localStorage
MaxOps == 3
\* user operations per session started on a localStorage with a long history
MaxDeepOps == 2
\* mutations that precede the session with a long history
PrefillDepth == 50
\* days the clock may advance during a session
MaxDays == 1
\* UUIDs the sessions may draw
MaxUuid == 2
\* days between lastProcessed and the current date in the generator's inputs
MaxElapsedDays == 400
\* transactions of the finance states given to the summaries
MaxSummaryTransactions == 3
\* transactions of the lists given to detectAnomalies
MaxAnomalyTransactions == 4

\* the setItem call of an operation that fails: 1 .. MaxFailAt
MaxFailAt == 3

\* -------------------------------------------------- program constants ----
MAX_HISTORY_SIZE == 50

\* day 0 of the calendar of the model
Epoch == <<2024, 1, 1>>
EpochYear == Epoch[1]

\* ---------------------------------------------------------- calendar ----
IsLeap(y) == (y % 4 = 0 /\ y % 100 # 0) \/ y % 400 = 0

DaysInYear(y) == IF IsLeap(y) THEN 366 ELSE 365

DaysInMonth(y, m) ==
    IF m = 2 THEN (IF IsLeap(y) THEN 29 ELSE 28)
    ELSE IF m \in {4, 6, 9, 11} THEN 30 ELSE 31

RECURSIVE DaysBeforeYear(_)
DaysBeforeYear(y) ==
    IF y <= EpochYear THEN 0 ELSE DaysBeforeYear(y - 1) + DaysInYear(y - 1)

RECURSIVE DaysBeforeMonth(_, _)
DaysBeforeMonth(y, m) ==
    IF m <= 1 THEN 0 ELSE DaysBeforeMonth(y, m - 1) + DaysInMonth(y, m - 1)

\* new Date(year, monthIndex, day): monthIndex is 0-based and may exceed 11, day
\* may exceed the month's length; both overflow into the following months.
MakeDate(y, m0, d) ==
    LET yy == y + (m0 \div 12)
        mm == (m0 % 12) + 1
    IN  DaysBeforeYear(yy) + DaysBeforeMonth(yy, mm) + (d - 1)

\* parseISO("yyyy-MM-dd"): local midnight of that day
parseISO(s) == MakeDate(s[1], s[2] - 1, s[3])

RECURSIVE YearOfDay(_, _)
YearOfDay(n, y) ==
    IF n < DaysInYear(y) THEN <<y, n>> ELSE YearOfDay(n - DaysInYear(y), y + 1)

RECURSIVE MonthOfDay(_, _, _)
MonthOfDay(n, y, m) ==
    IF n < DaysInMonth(y, m) THEN <<m, n + 1>>
    ELSE MonthOfDay(n - DaysInMonth(y, m), y, m + 1)

\* format(date, 'yyyy-MM-dd')
format(n) ==
    LET yn == YearOfDay(n, EpochYear)
        md == MonthOfDay(yn[2], yn[1], 1)
    IN  <<yn[1], md[1], md[2]>>

getFullYear(n) == format(n)[1]
getMonth(n) == format(n)[2] - 1
getDate(n) == format(n)[3]

\* s >= t, where the code has s > t
StrGreater_OrEqual(s, t) ==
    \/ s[1] > t[1]
    \/ s[1] = t[1] /\ s[2] > t[2]
    \/ s[1] = t[1] /\ s[2] = t[2] /\ s[3] >= t[3]

\* s > t for two "yyyy-MM-dd" strings
StrGreater(s, t) ==
    \/ s[1] > t[1]
    \/ s[1] = t[1] /\ s[2] > t[2]
    \/ s[1] = t[1] /\ s[2] = t[2] /\ s[3] > t[3]

\* -------------------------------------------------------- data model ----
\* types (src/types): Transaction, RecurringInfo, Category, FinanceState.
\* receiptURL, tags, color and icon are carried by the code and never read
\* by the logic modelled here; they are left out.
NoDate == <<>>

NoRecurring == [frequency |-> "none", endDate |-> NoDate, lastProcessed |-> NoDate]

RecurringInfo(f, e, l) == [frequency |-> f, endDate |-> e, lastProcessed |-> l]

Transaction(id, amount, description, date, type, categoryId, recurring) ==
    [id |-> id, amount |-> amount, description |-> description, date |-> date,
     type |-> type, categoryId |-> categoryId, recurring |-> recurring]

Category(id, name, type) == [id |-> id, name |-> name, type |-> type]

\* keys: the keys of the JSON object that hold a truthy value
FinanceKeys == {"transactions", "categories", "version"}

FinanceState(transactions, categories, version) ==
    [keys |-> FinanceKeys, transactions |-> transactions,
     categories |-> categories, version |-> version]

defaultCategories == <<
    Category(<<"salary">>, <<"Salary">>, "income"),
    Category(<<"freelance">>, <<"Freelance">>, "income"),
    Category(<<"gift">>, <<"Gifts">>, "income"),
    Category(<<"other", "income">>, <<"Other", "Income">>, "income"),
    Category(<<"housing">>, <<"Housing">>, "expense"),
    Category(<<"food">>, <<"Food">>, "expense"),
    Category(<<"transportation">>, <<"Transportation">>, "expense"),
    Category(<<"utilities">>, <<"Utilities">>, "expense"),
    Category(<<"healthcare">>, <<"Healthcare">>, "expense"),
    Category(<<"entertainment">>, <<"Entertainment">>, "expense"),
    Category(<<"shopping">>, <<"Shopping">>, "expense"),
    Category(<<"other", "expense">>, <<"Other", "Expenses">>, "expense") >>

defaultFinanceState == FinanceState(<<>>, defaultCategories, "1.0.0")

defaultUserPreferences ==
    [themeMode |-> "system", currency |-> "USD", dateFormat |-> "MM/dd/yyyy",
     notifications |-> TRUE, autoCategorization |-> TRUE]

\* ------------------------------------------------- sequence helpers ----
\* Array.prototype.filter / map / some / findIndex
SeqFilter(s, Keep(_)) == SelectSeq(s, Keep)

SeqMap(s, F(_)) == [i \in 1..Len(s) |-> F(s[i])]

SeqSome(s, P(_)) == \E i \in 1..Len(s) : P(s[i])

\* 0 stands for the -1 of findIndex; indices are 1-based
FindIndex(s, P(_)) ==
    IF \E i \in 1..Len(s) : P(s[i])
    THEN CHOOSE i \in 1..Len(s) : P(s[i]) /\ \A j \in 1..(i - 1) : ~P(s[j])
    ELSE 0

Range(s) == {s[i] : i \in 1..Len(s)}

\* ------------------------------------------------- lib/storage.ts ----
\* localStorage: ls.data is <<>> (no item) or <<state>>; ls.undo and ls.redo
\* are the stored arrays (no item reads as the empty array); ls.prefs is <<>>
\* or <<preferences>>.
EmptyStorage == [data |-> <<>>, undo |-> <<>>, redo |-> <<>>, prefs |-> <<>>]

getFinanceData(s) == IF s.data = <<>> THEN defaultFinanceState ELSE s.data[1]

getUndoStack(s) == s.undo

getRedoStack(s) == s.redo

getUserPreferences(s) == IF s.prefs = <<>> THEN defaultUserPreferences ELSE s.prefs[1]

\* saveUserPreferences that records an undo snapshot as saveFinanceData does
saveUserPreferences_Snapshot(s, prefs) ==
    [s EXCEPT !.prefs = <<prefs>>,
              !.undo = Append(getUndoStack(s), getFinanceData(s)),
              !.redo = <<>>]

saveUserPreferences(s, prefs) == [s EXCEPT !.prefs = <<prefs>>]

\* saveToUndoStack without the size limit
saveToUndoStack_NoLimit(s, state) ==
    [s EXCEPT !.undo = Append(getUndoStack(s), state), !.redo = <<>>]

\* saveToUndoStack that leaves the redo stack alone
saveToUndoStack_KeepRedo(s, state) ==
    LET pushed == Append(getUndoStack(s), state)
        undoStack == IF Len(pushed) > MAX_HISTORY_SIZE THEN Tail(pushed) ELSE pushed
    IN  [s EXCEPT !.undo = undoStack]

\* saveToUndoStack that drops the newest snapshot (pop) instead of the oldest
saveToUndoStack_DropNewest(s, state) ==
    LET pushed == Append(getUndoStack(s), state)
        undoStack == IF Len(pushed) > MAX_HISTORY_SIZE
                     THEN SubSeq(pushed, 1, Len(pushed) - 1) ELSE pushed
    IN  [s EXCEPT !.undo = undoStack, !.redo = <<>>]

\* push, drop the oldest when over MAX_HISTORY_SIZE, clear the redo stack
saveToUndoStack(s, state) ==
    LET pushed == Append(getUndoStack(s), state)
        undoStack == IF Len(pushed) > MAX_HISTORY_SIZE THEN Tail(pushed) ELSE pushed
    IN  [s EXCEPT !.undo = undoStack, !.redo = <<>>]

\* saveFinanceData that snapshots the new data instead of the stored state
saveFinanceData_SnapshotNew(s, data) ==
    LET s1 == saveToUndoStack(s, data)
    IN  [s1 EXCEPT !.data = <<data>>]

saveFinanceData(s, data) ==
    LET s1 == saveToUndoStack(s, getFinanceData(s))
    IN  [s1 EXCEPT !.data = <<data>>]

canUndo(s) == Len(getUndoStack(s)) > 0

canRedo(s) == Len(getRedoStack(s)) > 0

\* undo without the early return on an empty stack
undo_NoGuard(s) ==
    LET undoStack == getUndoStack(s)
        currentState == getFinanceData(s)
        previousState == IF Len(undoStack) = 0 THEN defaultFinanceState
                         ELSE undoStack[Len(undoStack)]
        redoStack == Append(getRedoStack(s), currentState)
    IN  [ls |-> [s EXCEPT !.undo = SubSeq(undoStack, 1, Len(undoStack) - 1),
                          !.redo = redoStack,
                          !.data = <<previousState>>],
         ret |-> <<previousState>>]

\* undo that pushes the restored state, not the current one, on the redo stack
undo_PushPrevious(s) ==
    LET undoStack == getUndoStack(s)
        previousState == undoStack[Len(undoStack)]
        redoStack == Append(getRedoStack(s), previousState)
    IN  IF Len(undoStack) = 0 THEN [ls |-> s, ret |-> <<>>]
        ELSE [ls |-> [s EXCEPT !.undo = SubSeq(undoStack, 1, Len(undoStack) - 1),
                               !.redo = redoStack,
                               !.data = <<previousState>>],
              ret |-> <<previousState>>]

\* undo that reads the top of the undo stack without removing it
undo_NoPop(s) ==
    LET undoStack == getUndoStack(s)
        currentState == getFinanceData(s)
        previousState == undoStack[Len(undoStack)]
        redoStack == Append(getRedoStack(s), currentState)
    IN  IF Len(undoStack) = 0 THEN [ls |-> s, ret |-> <<>>]
        ELSE [ls |-> [s EXCEPT !.redo = redoStack, !.data = <<previousState>>],
              ret |-> <<previousState>>]

\* undo() and redo() return [ls: the storage afterwards, ret: <<>> for null or
\* <<state>> for the state returned]
undo(s) ==
    LET undoStack == getUndoStack(s)
        currentState == getFinanceData(s)
        previousState == undoStack[Len(undoStack)]
        redoStack == Append(getRedoStack(s), currentState)
    IN  IF Len(undoStack) = 0 THEN [ls |-> s, ret |-> <<>>]
        ELSE [ls |-> [s EXCEPT !.undo = SubSeq(undoStack, 1, Len(undoStack) - 1),
                               !.redo = redoStack,
                               !.data = <<previousState>>],
              ret |-> <<previousState>>]

redo(s) ==
    LET redoStack == getRedoStack(s)
        currentState == getFinanceData(s)
        nextState == redoStack[Len(redoStack)]
        undoStack == Append(getUndoStack(s), currentState)
    IN  IF Len(redoStack) = 0 THEN [ls |-> s, ret |-> <<>>]
        ELSE [ls |-> [s EXCEPT !.undo = undoStack,
                               !.redo = SubSeq(redoStack, 1, Len(redoStack) - 1),
                               !.data = <<nextState>>],
              ret |-> <<nextState>>]

\* An import file: malformed text, or a JSON object with the given truthy keys
ImportFile(wellFormed, value) == [wellFormed |-> wellFormed, value |-> value]

\* importData(jsonData): [ls, ret] with ret the boolean returned
importData(s, file) ==
    IF ~file.wellFormed THEN [ls |-> s, ret |-> FALSE]
    ELSE IF ~(FinanceKeys \subseteq file.value.keys) THEN [ls |-> s, ret |-> FALSE]
    ELSE [ls |-> saveFinanceData(s, file.value), ret |-> TRUE]

\* The import handler of the Settings page: JSON.parse, then setItem of the
\* finance record directly; [ls, ret] with ret TRUE when the success alert shows
settingsImport(s, file) ==
    IF ~file.wellFormed THEN [ls |-> s, ret |-> FALSE]
    ELSE [ls |-> [s EXCEPT !.data = <<file.value>>], ret |-> TRUE]

\* resetLocalStorage: localStorage.clear()
resetLocalStorage(s) == EmptyStorage

\* ------------------------------- lib/finance-utils.ts: the generator ----
\* The new instance of one transaction on currentDate: <<>> when nothing is
\* generated, else <<instance>> (the body of the forEach callback)
RecurringInstance(transaction, currentDate) ==
    LET today == format(currentDate)
        frequency == transaction.recurring.frequency
        lastProcessed == transaction.recurring.lastProcessed
        endDate == transaction.recurring.endDate
        lastDate == parseISO(lastProcessed)
        dayDiff == currentDate - lastDate
        weekDiff == (currentDate - lastDate) \div 7
        monthDiff == (getFullYear(currentDate) - getFullYear(lastDate)) * 12
                     + (getMonth(currentDate) - getMonth(lastDate))
        yearDiff == getFullYear(currentDate) - getFullYear(lastDate)
        shouldGenerate ==
            CASE frequency = "daily" -> dayDiff >= 1
              [] frequency = "weekly" -> weekDiff >= 1
              [] frequency = "monthly" -> monthDiff >= 1
              [] frequency = "yearly" -> yearDiff >= 1
              [] OTHER -> FALSE
        newDate ==
            CASE frequency = "daily" -> currentDate
              [] frequency = "weekly" -> lastDate + weekDiff * 7
              [] frequency = "monthly" ->
                   MakeDate(getFullYear(lastDate), getMonth(lastDate) + monthDiff,
                            getDate(lastDate))
              [] frequency = "yearly" ->
                   MakeDate(getFullYear(lastDate) + yearDiff, getMonth(lastDate),
                            getDate(lastDate))
        newDateStr == format(newDate)
    IN  IF frequency = "none" THEN <<>>
        ELSE IF lastProcessed = NoDate THEN <<>>
        ELSE IF endDate # NoDate /\ StrGreater(today, endDate) THEN <<>>
        ELSE IF ~shouldGenerate THEN <<>>
        ELSE << [transaction EXCEPT
                   !.id = transaction.id \o newDateStr,
                   !.date = newDateStr,
                   !.recurring = [transaction.recurring EXCEPT
                                    !.lastProcessed = newDateStr]] >>

\* instances that keep the id of their template
RECURSIVE processRecurringTransactions_TemplateId(_, _)
processRecurringTransactions_TemplateId(transactions, currentDate) ==
    IF transactions = <<>> THEN <<>>
    ELSE LET r == RecurringInstance(Head(transactions), currentDate)
         IN  (IF r = <<>> THEN <<>> ELSE << [r[1] EXCEPT !.id = Head(transactions).id] >>)
             \o processRecurringTransactions_TemplateId(Tail(transactions), currentDate)

RECURSIVE processRecurringTransactions(_, _)
processRecurringTransactions(transactions, currentDate) ==
    IF transactions = <<>> THEN <<>>
    ELSE RecurringInstance(Head(transactions), currentDate)
         \o processRecurringTransactions(Tail(transactions), currentDate)

\* ------------------------------------- lib/finance-utils: summaries ----
\* date-fns on Dates at local midnight
startOfMonth(n) == MakeDate(getFullYear(n), getMonth(n), 1)

endOfMonth(n) == MakeDate(getFullYear(n), getMonth(n) + 1, 1) - 1

startOfYear(n) == MakeDate(getFullYear(n), 0, 1)

endOfYear(n) == MakeDate(getFullYear(n) + 1, 0, 1) - 1

isWithinInterval(date, start, end) == start <= date /\ date <= end

\* a range that leaves its last day out
getTransactionsInRange_EndExcluded(transactions, dateRange) ==
    SelectSeq(transactions,
              LAMBDA t : LET transactionDate == parseISO(t.date)
                         IN  dateRange.startDate <= transactionDate
                             /\ transactionDate < dateRange.endDate)

getTransactionsInRange(transactions, dateRange) ==
    SelectSeq(transactions,
              LAMBDA t : LET transactionDate == parseISO(t.date)
                         IN  isWithinInterval(transactionDate, dateRange.startDate,
                                              dateRange.endDate))

getTransactionsByType(transactions, type) ==
    SelectSeq(transactions, LAMBDA t : t.type = type)

\* transactions.reduce((total, transaction) => total + transaction.amount, 0)
RECURSIVE SumAmounts(_)
SumAmounts(transactions) ==
    IF transactions = <<>> THEN 0
    ELSE SumAmounts(SubSeq(transactions, 1, Len(transactions) - 1))
         + transactions[Len(transactions)].amount

\* a total that ignores the type
calculateTotalByType_AnyType(transactions, type) == SumAmounts(transactions)

calculateTotalByType(transactions, type) ==
    SumAmounts(SelectSeq(transactions, LAMBDA t : t.type = type))

\* a breakdown of the expenses only
RECURSIVE getCategoryBreakdown_ExpensesOnly(_, _)
getCategoryBreakdown_ExpensesOnly(transactions, categories) ==
    IF transactions = <<>> THEN <<>>
    ELSE LET breakdown == getCategoryBreakdown_ExpensesOnly(
                             SubSeq(transactions, 1, Len(transactions) - 1), categories)
             transaction == transactions[Len(transactions)]
             categoryId == transaction.categoryId
             zeroed == IF categoryId \notin DOMAIN breakdown \/ breakdown[categoryId] = 0
                       THEN (categoryId :> 0) @@ breakdown
                       ELSE breakdown
         IN  IF transaction.type # "expense" THEN breakdown
             ELSE [zeroed EXCEPT ![categoryId] = @ + transaction.amount]

\* Record<string, number>: a function on the category ids met; the forEach
\* runs over the transactions from the first to the last
RECURSIVE getCategoryBreakdown(_, _)
getCategoryBreakdown(transactions, categories) ==
    IF transactions = <<>> THEN <<>>
    ELSE LET breakdown == getCategoryBreakdown(
                             SubSeq(transactions, 1, Len(transactions) - 1), categories)
             transaction == transactions[Len(transactions)]
             categoryId == transaction.categoryId
             zeroed == IF categoryId \notin DOMAIN breakdown \/ breakdown[categoryId] = 0
                       THEN (categoryId :> 0) @@ breakdown
                       ELSE breakdown
         IN  [zeroed EXCEPT ![categoryId] = @ + transaction.amount]

getMonthSummary(data, month, year) ==
    LET startDate == startOfMonth(MakeDate(year, month, 1))
        endDate == endOfMonth(MakeDate(year, month, 1))
        transactionsInMonth ==
            getTransactionsInRange(data.transactions,
                                   [startDate |-> startDate, endDate |-> endDate])
        totalIncome == calculateTotalByType(transactionsInMonth, "income")
        totalExpense == calculateTotalByType(transactionsInMonth, "expense")
    IN  [month |-> month,
         year |-> year,
         totalIncome |-> totalIncome,
         totalExpense |-> totalExpense,
         balance |-> totalIncome - totalExpense,
         categorySummary |-> getCategoryBreakdown(transactionsInMonth, data.categories)]

\* totalIncome / totalExpense after the loop has run months 0 .. month - 1
RECURSIVE YearTotal(_, _, _, _)
YearTotal(data, year, month, field) ==
    IF month = 0 THEN 0
    ELSE YearTotal(data, year, month - 1, field)
         + (IF field = "totalIncome"
            THEN getMonthSummary(data, month - 1, year).totalIncome
            ELSE getMonthSummary(data, month - 1, year).totalExpense)

getYearSummary(data, year) ==
    LET monthlySummaries == [m \in 1..12 |-> getMonthSummary(data, m - 1, year)]
        totalIncome == YearTotal(data, year, 12, "totalIncome")
        totalExpense == YearTotal(data, year, 12, "totalExpense")
        startDate == startOfYear(MakeDate(year, 0, 1))
        endDate == endOfYear(MakeDate(year, 0, 1))
        transactionsInYear ==
            getTransactionsInRange(data.transactions,
                                   [startDate |-> startDate, endDate |-> endDate])
    IN  [year |-> year,
         totalIncome |-> totalIncome,
         totalExpense |-> totalExpense,
         balance |-> totalIncome - totalExpense,
         monthlySummaries |-> monthlySummaries,
         categorySummary |-> getCategoryBreakdown(transactionsInYear, data.categories)]

\* ------------------------------------- lib/finance-utils: anomalies ----
\* format(parseISO(transaction.date), 'yyyy-MM')
MonthYearOf(transaction) ==
    LET date == format(parseISO(transaction.date)) IN <<date[1], date[2]>>

\* a > b for two "yyyy-MM" strings
MonthYearGreater(a, b) == a[1] > b[1] \/ (a[1] = b[1] /\ a[2] > b[2])

\* a grouping that takes the income transactions as well
RECURSIVE MonthlySpendByCategory_AnyType(_)
MonthlySpendByCategory_AnyType(transactions) ==
    IF transactions = <<>> THEN <<>>
    ELSE LET before == MonthlySpendByCategory_AnyType(
                          SubSeq(transactions, 1, Len(transactions) - 1))
             transaction == transactions[Len(transactions)]
             monthYear == MonthYearOf(transaction)
             categoryId == transaction.categoryId
             withMonth == IF monthYear \notin DOMAIN before
                          THEN (monthYear :> [keys |-> <<>>, total |-> <<>>]) @@ before
                          ELSE before
             entry == withMonth[monthYear]
             withCategory ==
                 IF categoryId \notin DOMAIN entry.total
                 THEN [keys |-> Append(entry.keys, categoryId),
                       total |-> (categoryId :> 0) @@ entry.total]
                 ELSE entry
         IN  [withMonth EXCEPT
                   ![monthYear] = [withCategory EXCEPT
                                     !.total[categoryId] = @ + transaction.amount]]

\* monthlySpendByCategory after the forEach: month -> the totals of the
\* category ids, and the ids in the order their keys were created, which is
\* the order for..in visits them
RECURSIVE MonthlySpendByCategory(_)
MonthlySpendByCategory(transactions) ==
    IF transactions = <<>> THEN <<>>
    ELSE LET before == MonthlySpendByCategory(
                          SubSeq(transactions, 1, Len(transactions) - 1))
             transaction == transactions[Len(transactions)]
             monthYear == MonthYearOf(transaction)
             categoryId == transaction.categoryId
             withMonth == IF monthYear \notin DOMAIN before
                          THEN (monthYear :> [keys |-> <<>>, total |-> <<>>]) @@ before
                          ELSE before
             entry == withMonth[monthYear]
             withCategory ==
                 IF categoryId \notin DOMAIN entry.total
                 THEN [keys |-> Append(entry.keys, categoryId),
                       total |-> (categoryId :> 0) @@ entry.total]
                 ELSE entry
         IN  IF transaction.type # "expense" THEN before
             ELSE [withMonth EXCEPT
                   ![monthYear] = [withCategory EXCEPT
                                     !.total[categoryId] = @ + transaction.amount]]

\* a test without the minimum of the previous amount
IsAnomaly_NoMinimum(currentAmount, previousAmount) ==
    /\ previousAmount > 0
    /\ (currentAmount - previousAmount) * 100 >= 50 * previousAmount

\* previousAmount >= 10 and percentageChange >= 50, the percentage being
\* ((currentAmount - previousAmount) / previousAmount) * 100
IsAnomaly(currentAmount, previousAmount) ==
    /\ ~(previousAmount < 10)
    /\ (currentAmount - previousAmount) * 100 >= 50 * previousAmount

\* months[months.length - 1] after Object.keys(..).sort()
LastMonth(months) ==
    CHOOSE m \in months : \A o \in months \ {m} : MonthYearGreater(m, o)

\* monthlySpendByCategory[month]?.[categoryId] || 0
AmountOrZero(byCategory, categoryId) ==
    IF categoryId \in DOMAIN byCategory.total THEN byCategory.total[categoryId] ELSE 0

\* the for..in loop over the categories of the current month; percentageChange
\* is kept as the fraction it is computed from
CompareMonths(current, previous) ==
    LET reported ==
            SelectSeq(current.keys,
                      LAMBDA c : IsAnomaly(current.total[c], AmountOrZero(previous, c)))
    IN  [i \in 1..Len(reported) |->
           [categoryId |-> reported[i],
            amount |-> current.total[reported[i]],
            percentageChange |->
                [times100 |-> (current.total[reported[i]]
                               - AmountOrZero(previous, reported[i])) * 100,
                 over |-> AmountOrZero(previous, reported[i])]]]

detectAnomalies(transactions, categories) ==
    LET monthlySpendByCategory == MonthlySpendByCategory(transactions)
        months == DOMAIN monthlySpendByCategory
    IN  IF Cardinality(months) < 2 THEN <<>>
        ELSE CompareMonths(
                monthlySpendByCategory[LastMonth(months)],
                monthlySpendByCategory[LastMonth(months \ {LastMonth(months)})])

\* ------------------------------ lib/finance-utils: auto-categorize ----
\* A description and a keyword are the sequences of their characters.
UpperCaseLetters ==
    <<"A","B","C","D","E","F","G","H","I","J","K","L","M",
      "N","O","P","Q","R","S","T","U","V","W","X","Y","Z">>

LowerCaseLetters ==
    <<"a","b","c","d","e","f","g","h","i","j","k","l","m",
      "n","o","p","q","r","s","t","u","v","w","x","y","z">>

\* description.toLowerCase()
toLowerCaseChars(str) ==
    [i \in 1..Len(str) |->
        IF \E k \in 1..Len(UpperCaseLetters) : UpperCaseLetters[k] = str[i]
        THEN LowerCaseLetters[CHOOSE k \in 1..Len(UpperCaseLetters) :
                                 UpperCaseLetters[k] = str[i]]
        ELSE str[i]]

\* String.prototype.includes
includes(str, keyword) ==
    \E i \in 0..(Len(str) - Len(keyword)) : SubSeq(str, i + 1, i + Len(keyword)) = keyword

\* the entries of keywordMap
keywordMap == <<
    [id |-> <<"salary">>, keywords |-> <<
        <<"s","a","l","a","r","y">>,
        <<"w","a","g","e">>,
        <<"p","a","y","c","h","e","c","k">>,
        <<"p","a","y">> >>],
    [id |-> <<"freelance">>, keywords |-> <<
        <<"f","r","e","e","l","a","n","c","e">>,
        <<"c","o","n","t","r","a","c","t">>,
        <<"g","i","g">>,
        <<"c","l","i","e","n","t">> >>],
    [id |-> <<"gift">>, keywords |-> <<
        <<"g","i","f","t">>,
        <<"p","r","e","s","e","n","t">>,
        <<"d","o","n","a","t","i","o","n">> >>],
    [id |-> <<"housing">>, keywords |-> <<
        <<"r","e","n","t">>,
        <<"m","o","r","t","g","a","g","e">>,
        <<"h","o","u","s","i","n","g">>,
        <<"a","p","a","r","t","m","e","n","t">>,
        <<"h","o","u","s","e">> >>],
    [id |-> <<"food">>, keywords |-> <<
        <<"g","r","o","c","e","r","y">>,
        <<"r","e","s","t","a","u","r","a","n","t">>,
        <<"f","o","o","d">>,
        <<"m","e","a","l">>,
        <<"d","i","n","n","e","r">>,
        <<"l","u","n","c","h">> >>],
    [id |-> <<"transportation">>, keywords |-> <<
        <<"g","a","s">>,
        <<"f","u","e","l">>,
        <<"c","a","r">>,
        <<"b","u","s">>,
        <<"t","r","a","i","n">>,
        <<"u","b","e","r">>,
        <<"l","y","f","t">>,
        <<"t","a","x","i">> >>],
    [id |-> <<"utilities">>, keywords |-> <<
        <<"e","l","e","c","t","r","i","c">>,
        <<"w","a","t","e","r">>,
        <<"g","a","s">>,
        <<"i","n","t","e","r","n","e","t">>,
        <<"p","h","o","n","e">>,
        <<"u","t","i","l","i","t","y">>,
        <<"b","i","l","l">> >>],
    [id |-> <<"healthcare">>, keywords |-> <<
        <<"d","o","c","t","o","r">>,
        <<"h","o","s","p","i","t","a","l">>,
        <<"m","e","d","i","c","a","l">>,
        <<"m","e","d","i","c","i","n","e">>,
        <<"p","h","a","r","m","a","c","y">>,
        <<"h","e","a","l","t","h">> >>],
    [id |-> <<"entertainment">>, keywords |-> <<
        <<"m","o","v","i","e">>,
        <<"g","a","m","e">>,
        <<"c","o","n","c","e","r","t">>,
        <<"n","e","t","f","l","i","x">>,
        <<"s","p","o","t","i","f","y">>,
        <<"s","u","b","s","c","r","i","p","t","i","o","n">> >>],
    [id |-> <<"shopping">>, keywords |-> <<
        <<"a","m","a","z","o","n">>,
        <<"w","a","l","m","a","r","t">>,
        <<"t","a","r","g","e","t">>,
        <<"s","h","o","p">>,
        <<"s","t","o","r","e">>,
        <<"b","u","y">> >>] >>

\* keywordMap[category.id] || []
KeywordsOf(id) ==
    IF \E k \in 1..Len(keywordMap) : keywordMap[k].id = id
    THEN keywordMap[CHOOSE k \in 1..Len(keywordMap) : keywordMap[k].id = id].keywords
    ELSE <<>>

\* the loop over typeCategories: <<id>> of the first category with a keyword
\* in the description, <<>> when the loop ends without a return
RECURSIVE FirstKeywordMatch(_, _)
FirstKeywordMatch(typeCategories, descriptionLower) ==
    IF typeCategories = <<>> THEN <<>>
    ELSE LET category == Head(typeCategories)
             keywords == KeywordsOf(category.id)
         IN  IF \E k \in 1..Len(keywords) : includes(descriptionLower, keywords[k])
             THEN <<category.id>>
             ELSE FirstKeywordMatch(Tail(typeCategories), descriptionLower)

\* a search among the categories of both types
autoCategorizeTransaction_AnyType(description, amount, type, categories) ==
    LET match == FirstKeywordMatch(categories, toLowerCaseChars(description))
        defaultCategoryId == IF type = "income" THEN <<"other", "income">>
                             ELSE <<"other", "expense">>
        defaultCategory == SelectSeq(categories, LAMBDA c : c.id = defaultCategoryId)
    IN  IF match # <<>> THEN match
        ELSE IF defaultCategory # <<>> THEN <<defaultCategory[1].id>>
        ELSE <<>>

\* the result is <<id>>, or <<>> for null
autoCategorizeTransaction(description, amount, type, categories) ==
    LET typeCategories == SelectSeq(categories, LAMBDA c : c.type = type)
        match == FirstKeywordMatch(typeCategories, toLowerCaseChars(description))
        defaultCategoryId == IF type = "income" THEN <<"other", "income">>
                             ELSE <<"other", "expense">>
        defaultCategory == SelectSeq(typeCategories, LAMBDA c : c.id = defaultCategoryId)
    IN  IF match # <<>> THEN match
        ELSE IF defaultCategory # <<>> THEN <<defaultCategory[1].id>>
        ELSE <<>>

\* ----------------------------------------------------- storage failures ----
\* A fault of the browser's storage during one operation: none; "getItem",
\* every localStorage.getItem throws; "corrupt", every stored item is text
\* that JSON.parse rejects; "setItem", the at-th localStorage.setItem call of
\* the operation throws (quota exceeded) and the calls before it succeed.
NoFault == [kind |-> "none", at |-> 0]

\* what a try { getItem; parse } catch { return fallback } block returns
ReadOr(fault, stored, fallback) ==
    IF fault.kind \in {"getItem", "corrupt"} THEN fallback ELSE stored

\* the setItem calls of writes (<<key, value>> pairs) in order, after done
\* earlier calls of the same operation; stops at the call that throws
RECURSIVE SetItems(_, _, _, _)
SetItems(s, writes, fault, done) ==
    IF writes = <<>> THEN [ls |-> s, threw |-> FALSE, done |-> done]
    ELSE IF fault.kind = "setItem" /\ fault.at = done + 1
         THEN [ls |-> s, threw |-> TRUE, done |-> done + 1]
         ELSE SetItems([s EXCEPT ![writes[1][1]] = writes[1][2]],
                       Tail(writes), fault, done + 1)

getFinanceDataUnder(s, fault) == ReadOr(fault, getFinanceData(s), defaultFinanceState)

getUndoStackUnder(s, fault) == ReadOr(fault, getUndoStack(s), <<>>)

getRedoStackUnder(s, fault) == ReadOr(fault, getRedoStack(s), <<>>)

getUserPreferencesUnder(s, fault) ==
    ReadOr(fault, getUserPreferences(s), defaultUserPreferences)

\* the single setItem is inside try/catch
saveUserPreferencesUnder(s, prefs, fault) ==
    LET w == SetItems(s, << <<"prefs", <<prefs>> >> >>, fault, 0)
    IN  [ls |-> w.ls, ret |-> <<>>, threw |-> FALSE]

\* both setItem calls are inside the function's own try/catch
saveToUndoStackUnder(s, state, fault) ==
    LET pushed == Append(getUndoStackUnder(s, fault), state)
        undoStack == IF Len(pushed) > MAX_HISTORY_SIZE THEN Tail(pushed) ELSE pushed
    IN  SetItems(s, << <<"undo", undoStack>>, <<"redo", <<>> >> >>, fault, 0)

\* saveToUndoStack swallows its own failure, so the data write is attempted
\* in every case; its failure is caught by saveFinanceData's try/catch
saveFinanceDataUnder(s, data, fault) ==
    LET u == saveToUndoStackUnder(s, getFinanceDataUnder(s, fault), fault)
        w == SetItems(u.ls, << <<"data", <<data>> >> >>, fault, u.done)
    IN  [ls |-> w.ls, ret |-> <<>>, threw |-> FALSE]

\* the reads catch; the three setItem calls are outside any try/catch
undoUnder(s, fault) ==
    LET undoStack == getUndoStackUnder(s, fault)
        currentState == getFinanceDataUnder(s, fault)
        previousState == undoStack[Len(undoStack)]
        redoStack == Append(getRedoStackUnder(s, fault), currentState)
        w == SetItems(s, << <<"undo", SubSeq(undoStack, 1, Len(undoStack) - 1)>>,
                            <<"redo", redoStack>>,
                            <<"data", <<previousState>> >> >>, fault, 0)
    IN  IF Len(undoStack) = 0 THEN [ls |-> s, ret |-> <<>>, threw |-> FALSE]
        ELSE [ls |-> w.ls,
              ret |-> IF w.threw THEN <<>> ELSE <<previousState>>,
              threw |-> w.threw]

redoUnder(s, fault) ==
    LET redoStack == getRedoStackUnder(s, fault)
        currentState == getFinanceDataUnder(s, fault)
        nextState == redoStack[Len(redoStack)]
        undoStack == Append(getUndoStackUnder(s, fault), currentState)
        w == SetItems(s, << <<"undo", undoStack>>,
                            <<"redo", SubSeq(redoStack, 1, Len(redoStack) - 1)>>,
                            <<"data", <<nextState>> >> >>, fault, 0)
    IN  IF Len(redoStack) = 0 THEN [ls |-> s, ret |-> <<>>, threw |-> FALSE]
        ELSE [ls |-> w.ls,
              ret |-> IF w.threw THEN <<>> ELSE <<nextState>>,
              threw |-> w.threw]

\* --------------------------------------------------------- variables ----
VARIABLES
    ls,             \* localStorage
    financeData,    \* provider state: the FinanceState of the latest render
    preferences,    \* provider state
    undoAvailable,  \* provider state, exposed as canUndo
    redoAvailable,  \* provider state, exposed as canRedo
    mountData,      \* financeData of the first render, which the callback given
                    \* to useEffect(.., []) and setInterval closes over
    phase,          \* "loading": rendered, mount effect pending; "ready";
                    \* "crashed": the mount effect threw
    now,            \* the current date (a Date)
    nextUuid,       \* UUIDs drawn so far
    budget,         \* user operations left in this run of the model
    earlier,        \* mutations of an earlier session still to come before the
                    \* session under check loads the page
    lastOp,         \* the last operation, its argument and its outcome
    arg,            \* input of the pure function under check
    res             \* its result

vars == <<ls, financeData, preferences, undoAvailable, redoAvailable, mountData,
          phase, now, nextUuid, budget, earlier, lastOp, arg, res>>

provider == <<financeData, preferences, undoAvailable, redoAvailable, mountData, phase>>

\* left alone by every operation of the session under check
pure == <<earlier, arg, res>>

\* crypto.randomUUID(): five '-'-separated segments, the k-th draw differs
\* from every earlier one
randomUUID(k) == <<k, 0, 0, 0, 0>>

\* The record of an operation: its name, argument and outcome; the lengths of
\* the stored stacks before it; the operation before it; and whether every
\* operation so far that saved a state was an addTransaction.
SavedNothing(op, ret) ==
    \/ op \in {"addTransaction", "undo", "redo", "load"}
    \/ op \in {"mount", "timer"} /\ ret = "nothing"

Op(op, a, ret) ==
    [op |-> op, arg |-> a, ret |-> ret,
     pre |-> [undo |-> Len(ls.undo), redo |-> Len(ls.redo)],
     prev |-> [op |-> lastOp.op, ret |-> lastOp.ret],
     onlyAdds |-> lastOp.onlyAdds /\ SavedNothing(op, ret)]

InitOp ==
    [op |-> "load", arg |-> <<>>, ret |-> "ok", pre |-> [undo |-> 0, redo |-> 0],
     prev |-> [op |-> "none", ret |-> "ok"], onlyAdds |-> TRUE]

\* --------------------------------------------------------- inputs ----
StartDate == <<2024, 1, 31>>

\* what TransactionForm.onSubmit builds on the date `date`
PlainExpense(date) ==
    [amount |-> 40, description |-> "lunch", date |-> date, type |-> "expense",
     categoryId |-> <<"food">>, recurring |-> NoRecurring]

DailyIncome(date) ==
    [amount |-> 100, description |-> "wages", date |-> date, type |-> "income",
     categoryId |-> <<"salary">>, recurring |-> RecurringInfo("daily", NoDate, date)]

TransactionInputs(date) == {PlainExpense(date), DailyIncome(date)}

WithId(t, id) ==
    Transaction(id, t.amount, t.description, t.date, t.type, t.categoryId, t.recurring)

CategoryInputs ==
    { [name |-> <<"Food">>, type |-> "expense"],
      [name |-> <<"Pet", "Care">>, type |-> "expense"] }

CategoryIdInputs == { <<"food">>, <<"salary">>, <<"pet", "care">> }

NewCategoryName == <<"Groceries">>

PreferenceInputs == { [currency |-> "EUR"] }

\* a stored record as an earlier export wrote it, with a recurring transaction
ImportedState ==
    FinanceState(
        << Transaction(<<7>>, 15, "gym", StartDate, "expense", <<"healthcare">>,
                       RecurringInfo("daily", NoDate, StartDate)) >>,
        defaultCategories, "1.0.0")

WithoutKeys(state, missing) ==
    [keys |-> state.keys \ missing,
     transactions |-> IF "transactions" \in missing THEN <<>> ELSE state.transactions,
     categories |-> IF "categories" \in missing THEN <<>> ELSE state.categories,
     version |-> IF "version" \in missing THEN "" ELSE state.version]

ImportFiles ==
    { ImportFile(FALSE, WithoutKeys(ImportedState, FinanceKeys)),
      ImportFile(TRUE, WithoutKeys(ImportedState, FinanceKeys)),
      ImportFile(TRUE, ImportedState) }

\* the state the n-th mutation of the earlier session commits: one transaction,
\* added by the first and edited by the others
EarlierState(n) ==
    FinanceState(<< WithId([PlainExpense(StartDate) EXCEPT !.amount = n], randomUUID(0)) >>,
                 defaultCategories, "1.0.0")

\* ------------------------------- contexts/FinanceContext: provider ----
\* useState initialisers of FinanceProvider on a page load
Render(s) ==
    /\ financeData' = getFinanceData(s)
    /\ preferences' = getUserPreferences(s)
    /\ undoAvailable' = canUndo(s)
    /\ redoAvailable' = canRedo(s)
    /\ mountData' = getFinanceData(s)
    /\ phase' = "loading"

\* forEach body of processRecurring: write lastProcessed back, push the instance
WriteBack(updatedTransactions, newTransaction) ==
    LET originalIndex ==
            FindIndex(updatedTransactions, LAMBDA t : t.id = <<Head(newTransaction.id)>>)
        written ==
            IF originalIndex # 0
               /\ updatedTransactions[originalIndex].recurring.frequency # "none"
            THEN [updatedTransactions EXCEPT
                    ![originalIndex].recurring.lastProcessed =
                        newTransaction.recurring.lastProcessed]
            ELSE updatedTransactions
    IN  Append(written, newTransaction)

RECURSIVE MergeInstances(_, _)
MergeInstances(updatedTransactions, newTransactions) ==
    IF newTransactions = <<>> THEN updatedTransactions
    ELSE MergeInstances(WriteBack(updatedTransactions, Head(newTransactions)),
                        Tail(newTransactions))

\* processRecurring on the FinanceState `data` its closure holds
ProcessRecurring(data, op) ==
    LET newTransactions == processRecurringTransactions(data.transactions, now')
        updatedData ==
            [data EXCEPT !.transactions = MergeInstances(data.transactions, newTransactions)]
    IN  IF Len(newTransactions) > 0
        THEN /\ financeData' = updatedData
             /\ ls' = saveFinanceData(ls, updatedData)
             /\ lastOp' = Op(op, now', "generated")
        ELSE /\ UNCHANGED <<financeData, ls>>
             /\ lastOp' = Op(op, now', "nothing")

updateUndoRedoState ==
    /\ undoAvailable' = canUndo(ls')
    /\ redoAvailable' = canRedo(ls')

\* the commit shared by the mutations: setFinanceData, saveFinanceData,
\* updateUndoRedoState
Commit(updatedData) ==
    /\ financeData' = updatedData
    /\ ls' = saveFinanceData(ls, updatedData)
    /\ updateUndoRedoState

\* One mutation of the earlier session (addTransaction, then updateTransaction
\* of the amount); after the last one the session under check loads the page.
EarlierMutation ==
    /\ earlier > 0
    /\ earlier' = earlier - 1
    /\ LET updatedData == EarlierState(PrefillDepth - earlier + 1)
       IN  /\ ls' = saveFinanceData(ls, updatedData)
           /\ IF earlier' = 0
              THEN Render(ls')
              ELSE /\ financeData' = updatedData
                   /\ updateUndoRedoState
                   /\ UNCHANGED <<preferences, mountData, phase>>
    /\ lastOp' = Op("earlier", PrefillDepth - earlier + 1, "ok")
    /\ UNCHANGED <<now, nextUuid, budget, arg, res>>

UserStep ==
    /\ phase = "ready"
    /\ budget > 0
    /\ budget' = budget - 1

\* useEffect(() => { processRecurring(); setInterval(..) }, []) after the first render
Mount ==
    /\ phase = "loading"
    /\ earlier = 0
    /\ IF "transactions" \in mountData.keys
       THEN /\ phase' = "ready"
            /\ now' = now
            /\ ProcessRecurring(mountData, "mount")
       ELSE /\ phase' = "crashed"
            /\ lastOp' = Op("mount", now, "threw")
            /\ UNCHANGED <<financeData, ls, now>>
    /\ UNCHANGED <<preferences, undoAvailable, redoAvailable, mountData,
                   nextUuid, budget, pure>>

\* the interval callback, 24 hours after the last firing (or the mount)
TimerTick ==
    /\ phase = "ready"
    /\ now < parseISO(StartDate) + MaxDays
    /\ now' = now + 1
    /\ ProcessRecurring(mountData, "timer")
    /\ UNCHANGED <<preferences, undoAvailable, redoAvailable, mountData, phase,
                   nextUuid, budget, pure>>

addTransaction(transaction) ==
    /\ UserStep
    /\ nextUuid < MaxUuid
    /\ nextUuid' = nextUuid + 1
    /\ LET newTransaction == WithId(transaction, randomUUID(nextUuid'))
       IN  /\ Commit([financeData EXCEPT
                        !.transactions = Append(financeData.transactions, newTransaction)])
           /\ lastOp' = Op("addTransaction", newTransaction, "ok")
    /\ UNCHANGED <<preferences, mountData, phase, now, pure>>

updateTransaction(transaction) ==
    /\ UserStep
    /\ Commit([financeData EXCEPT
                 !.transactions = SeqMap(financeData.transactions,
                      LAMBDA t : IF t.id = transaction.id THEN transaction ELSE t)])
    /\ lastOp' = Op("updateTransaction", transaction, "ok")
    /\ UNCHANGED <<preferences, mountData, phase, now, nextUuid, pure>>

deleteTransaction(id) ==
    /\ UserStep
    /\ Commit([financeData EXCEPT
                 !.transactions = SeqFilter(financeData.transactions,
                                            LAMBDA t : t.id # id)])
    /\ lastOp' = Op("deleteTransaction", id, "ok")
    /\ UNCHANGED <<preferences, mountData, phase, now, nextUuid, pure>>

\* String.prototype.toLowerCase on one word of a category name
toLowerCase(w) ==
    CASE w = "Food" -> "food"
      [] w = "Pet" -> "pet"
      [] w = "Care" -> "care"
      [] w = "Groceries" -> "groceries"
      [] OTHER -> w

\* name.toLowerCase().replace(/\s+/g, '-'): the words of the name, lower-cased,
\* are the '-'-separated segments of the id
CategoryIdOf(name) == [i \in 1..Len(name) |-> toLowerCase(name[i])]

addCategory(category) ==
    /\ UserStep
    /\ LET newCategory == Category(CategoryIdOf(category.name), category.name, category.type)
       IN  /\ Commit([financeData EXCEPT
                        !.categories = Append(financeData.categories, newCategory)])
           /\ lastOp' = Op("addCategory", newCategory, "ok")
    /\ UNCHANGED <<preferences, mountData, phase, now, nextUuid, pure>>

updateCategory(category) ==
    /\ UserStep
    /\ Commit([financeData EXCEPT
                 !.categories = SeqMap(financeData.categories,
                      LAMBDA c : IF c.id = category.id THEN category ELSE c)])
    /\ lastOp' = Op("updateCategory", category, "ok")
    /\ UNCHANGED <<preferences, mountData, phase, now, nextUuid, pure>>

\* deleteCategory without the check for transactions that use the category
deleteCategory_NoCheck(id) ==
    /\ UserStep
    /\ Commit([financeData EXCEPT
                 !.categories = SeqFilter(financeData.categories, LAMBDA c : c.id # id)])
    /\ lastOp' = Op("deleteCategory", id, "ok")
    /\ UNCHANGED <<preferences, mountData, phase, now, nextUuid, pure>>

deleteCategory(id) ==
    /\ UserStep
    /\ LET hasTransactions == SeqSome(financeData.transactions, LAMBDA t : t.categoryId = id)
       IN  IF hasTransactions
           THEN /\ lastOp' = Op("deleteCategory", id, "rejected")
                /\ UNCHANGED <<financeData, ls, undoAvailable, redoAvailable>>
           ELSE /\ Commit([financeData EXCEPT
                             !.categories = SeqFilter(financeData.categories,
                                                      LAMBDA c : c.id # id)])
                /\ lastOp' = Op("deleteCategory", id, "ok")
    /\ UNCHANGED <<preferences, mountData, phase, now, nextUuid, pure>>

updatePreferences(newPreferences) ==
    /\ UserStep
    /\ LET updatedPreferences ==
               [k \in DOMAIN preferences |->
                   IF k \in DOMAIN newPreferences THEN newPreferences[k] ELSE preferences[k]]
       IN  /\ preferences' = updatedPreferences
           /\ ls' = saveUserPreferences(ls, updatedPreferences)
    /\ lastOp' = Op("updatePreferences", newPreferences, "ok")
    /\ UNCHANGED <<financeData, undoAvailable, redoAvailable, mountData, phase, now,
                   nextUuid, pure>>

undoAction ==
    /\ UserStep
    /\ LET r == undo(ls)
       IN  /\ ls' = r.ls
           /\ IF r.ret # <<>>
              THEN /\ financeData' = r.ret[1]
                   /\ updateUndoRedoState
                   /\ lastOp' = Op("undo", <<>>, "ok")
              ELSE /\ UNCHANGED <<financeData, undoAvailable, redoAvailable>>
                   /\ lastOp' = Op("undo", <<>>, "null")
    /\ UNCHANGED <<preferences, mountData, phase, now, nextUuid, pure>>

redoAction ==
    /\ UserStep
    /\ LET r == redo(ls)
       IN  /\ ls' = r.ls
           /\ IF r.ret # <<>>
              THEN /\ financeData' = r.ret[1]
                   /\ updateUndoRedoState
                   /\ lastOp' = Op("redo", <<>>, "ok")
              ELSE /\ UNCHANGED <<financeData, undoAvailable, redoAvailable>>
                   /\ lastOp' = Op("redo", <<>>, "null")
    /\ UNCHANGED <<preferences, mountData, phase, now, nextUuid, pure>>

\* window.location.reload(), or the application opened again `days` later
Reload(days) ==
    /\ phase \in {"ready", "crashed"}
    /\ budget > 0
    /\ budget' = budget - 1
    /\ now + days <= parseISO(StartDate) + MaxDays
    /\ now' = now + days
    /\ Render(ls)
    /\ lastOp' = Op("reload", days, "ok")
    /\ UNCHANGED <<ls, nextUuid, pure>>

\* Transactions page, handleImportFile: importData, reload on success
handleImportFile(file) ==
    /\ UserStep
    /\ LET r == importData(ls, file)
       IN  /\ ls' = r.ls
           /\ IF r.ret
              THEN /\ Render(ls')
                   /\ lastOp' = Op("importData", file, "ok")
              ELSE /\ UNCHANGED provider
                   /\ lastOp' = Op("importData", file, "failed")
    /\ UNCHANGED <<now, nextUuid, pure>>

\* Settings page, the onChange handler of the import input
SettingsImport(file) ==
    /\ UserStep
    /\ LET r == settingsImport(ls, file)
       IN  /\ ls' = r.ls
           /\ IF r.ret
              THEN /\ Render(ls')
                   /\ lastOp' = Op("settingsImport", file, "ok")
              ELSE /\ UNCHANGED provider
                   /\ lastOp' = Op("settingsImport", file, "failed")
    /\ UNCHANGED <<now, nextUuid, pure>>

\* Settings page, resetLocalStorage: clear and reload
ResetData ==
    /\ UserStep
    /\ ls' = resetLocalStorage(ls)
    /\ Render(ls')
    /\ lastOp' = Op("reset", <<>>, "ok")
    /\ UNCHANGED <<now, nextUuid, pure>>

\* ------------------------------------------------- specification ----
\* The first page load, on an empty localStorage.  The session under check is
\* this one, or the one that follows PrefillDepth mutations of an earlier session.
Init ==
    /\ ls = EmptyStorage
    /\ \E deep \in BOOLEAN :
          /\ earlier = IF deep THEN PrefillDepth ELSE 0
          /\ budget = IF deep THEN MaxDeepOps ELSE MaxOps
    /\ financeData = getFinanceData(ls)
    /\ preferences = getUserPreferences(ls)
    /\ undoAvailable = canUndo(ls)
    /\ redoAvailable = canRedo(ls)
    /\ mountData = getFinanceData(ls)
    /\ phase = "loading"
    /\ now = parseISO(StartDate)
    /\ nextUuid = 0
    /\ lastOp = InitOp
    /\ arg = <<>>
    /\ res = <<>>

StoredTransactionIds == {financeData.transactions[i].id : i \in 1..Len(financeData.transactions)}

StoredCategories == Range(financeData.categories)

Next ==
    \/ EarlierMutation
    \/ Mount
    \/ TimerTick
    \/ \E t \in TransactionInputs(format(now)) : addTransaction(t)
    \/ \E id \in StoredTransactionIds, t \in TransactionInputs(format(now)) :
          updateTransaction(WithId(t, id))
    \/ \E id \in StoredTransactionIds : deleteTransaction(id)
    \/ \E c \in CategoryInputs : addCategory(c)
    \/ \E c \in StoredCategories :
          c.id \in CategoryIdInputs /\ updateCategory([c EXCEPT !.name = NewCategoryName])
    \/ \E c \in StoredCategories : c.id \in CategoryIdInputs /\ deleteCategory(c.id)
    \/ \E p \in PreferenceInputs : updatePreferences(p)
    \/ undoAction
    \/ redoAction
    \/ \E d \in 0..1 : Reload(d)
    \/ \E f \in ImportFiles : handleImportFile(f)
    \/ \E f \in ImportFiles : SettingsImport(f)
    \/ ResetData

Spec == Init /\ [][Next]_vars

\* ------------------------------------------------------------ claims ----
UserMutations ==
    {"addTransaction", "updateTransaction", "deleteTransaction",
     "addCategory", "updateCategory", "deleteCategory"}

\* the operation went through saveFinanceData
Saved(op) ==
    \/ op.op \in UserMutations \cup {"importData", "earlier"} /\ op.ret = "ok"
    \/ op.op \in {"mount", "timer"} /\ op.ret = "generated"

Last(s) == s[Len(s)]

Reverse(s) == [i \in 1..Len(s) |-> s[Len(s) + 1 - i]]

\* the states that consecutive undo() calls return until the stack is empty
RECURSIVE UndoAll(_)
UndoAll(s) ==
    IF ~canUndo(s) THEN <<>>
    ELSE LET r == undo(s) IN <<r.ret[1]>> \o UndoAll(r.ls)

\* C1: after any sequence of operations the stored undo stack and the stored
\* redo stack each hold at most 50 snapshots.
C1_StacksBounded ==
    /\ Len(ls.undo) <= MAX_HISTORY_SIZE
    /\ Len(ls.redo) <= MAX_HISTORY_SIZE

\* a redo has pushed onto the undo stack and filled it to the limit
C1_Witness ==
    /\ lastOp.op = "redo" /\ lastOp.ret = "ok"
    /\ Len(ls.undo) = MAX_HISTORY_SIZE

\* C2: every operation that saves through saveFinanceData leaves the redo
\* stack empty, and a redo that follows it directly returns null and changes
\* neither the storage nor the provider's state.
C2_MutationClearsRedo ==
    [][ /\ Saved(lastOp') => ls'.redo = <<>>
        /\ (Saved(lastOp) /\ lastOp'.op = "redo") =>
              /\ lastOp'.ret = "null"
              /\ UNCHANGED <<ls, financeData, undoAvailable, redoAvailable>> ]_vars

\* an addTransaction was committed while the redo stack held snapshots
C2_Witness ==
    /\ lastOp.op = "addTransaction" /\ lastOp.ret = "ok"
    /\ lastOp.pre.redo > 0
    /\ ls.redo = <<>>

\* C3: in every reachable state with a non-empty undo stack, undo() directly
\* followed by redo() leaves the stored finance state as it was.
C3_UndoRedoRoundTrip ==
    canUndo(ls) => getFinanceData(redo(undo(ls).ls).ls) = getFinanceData(ls)

\* an undo that changed the state was followed directly by a redo
C3_Witness ==
    /\ lastOp.op = "redo" /\ lastOp.ret = "ok"
    /\ lastOp.prev.op = "undo" /\ lastOp.prev.ret = "ok"
    /\ getFinanceData(ls) # getFinanceData(undo(ls).ls)

\* C4: a committed add/update/delete of a transaction or category takes the
\* current state S to S2; undo() called next returns S, stores S as the
\* current state, removes S from the top of the undo stack and puts S2 on top
\* of the redo stack.
C4_UndoRestoresPrior ==
    [][ (lastOp'.op \in UserMutations /\ lastOp'.ret = "ok") =>
           LET S == financeData
               S2 == financeData'
               u == undo(ls')
           IN  /\ u.ret = <<S>>
               /\ u.ls.data = <<S>>
               /\ Append(u.ls.undo, S) = ls'.undo
               /\ u.ls.redo # <<>> /\ Last(u.ls.redo) = S2 ]_vars

\* an undo directly after a committed mutation
C4_Witness ==
    /\ lastOp.op = "undo" /\ lastOp.ret = "ok"
    /\ lastOp.prev.op \in UserMutations /\ lastOp.prev.ret = "ok"

\* C5: undo() on an empty undo stack and redo() on an empty redo stack return
\* null and leave the stored finance state and both stacks unchanged.
C5_EmptyStackNoOp ==
    [][ /\ (lastOp'.op = "undo" /\ ~canUndo(ls)) =>
              lastOp'.ret = "null" /\ UNCHANGED <<ls, financeData>>
        /\ (lastOp'.op = "redo" /\ ~canRedo(ls)) =>
              lastOp'.ret = "null" /\ UNCHANGED <<ls, financeData>> ]_vars

\* an undo on an empty undo stack, then a redo on an empty redo stack
C5_Witness ==
    /\ lastOp.op = "redo" /\ lastOp.ret = "null"
    /\ lastOp.prev.op = "undo" /\ lastOp.prev.ret = "null"

\* C6: a save on a full undo stack drops exactly the oldest snapshot, keeps
\* the order of the others and puts the prior state on top; consecutive undos
\* return the stack top down, so that after PrefillDepth + 1 (more than 50)
\* mutations they return the states that preceded the 50 most recent ones,
\* the latest first.
\* the first operation of the session that follows the earlier one is a mutation
C6_FirstMutationOnFullStack ==
    /\ Saved(lastOp) /\ lastOp.op \in UserMutations
    /\ lastOp.pre.undo = MAX_HISTORY_SIZE
    /\ earlier = 0
    /\ budget = MaxDeepOps - 1

C6_FifoEviction ==
    /\ [][ (Saved(lastOp') /\ Len(ls.undo) = MAX_HISTORY_SIZE) =>
              ls'.undo = Append(Tail(ls.undo), getFinanceData(ls)) ]_vars
    /\ [](UndoAll(ls) = Reverse(ls.undo))
    /\ [](C6_FirstMutationOnFullStack =>
              UndoAll(ls) = [k \in 1..MAX_HISTORY_SIZE |->
                                EarlierState(PrefillDepth + 1 - k)])

\* a mutation was recorded on a full undo stack
C6_Witness ==
    /\ C6_FirstMutationOnFullStack
    /\ Len(ls.undo) = MAX_HISTORY_SIZE

C8_DeleteCategoryGuard ==
    [][ lastOp'.op = "deleteCategory" =>
           LET id == lastOp'.arg
           IN  IF \E i \in 1..Len(financeData.transactions) :
                     financeData.transactions[i].categoryId = id
               THEN UNCHANGED <<ls, financeData>>
               ELSE /\ \A c \in Range(financeData'.categories) : c.id # id
                    /\ Range(financeData'.categories)
                          = {c \in Range(financeData.categories) : c.id # id}
                    /\ financeData'.transactions = financeData.transactions
                    /\ getFinanceData(ls') = financeData'
                    /\ Last(ls'.undo) = financeData ]_vars

\* a deletion was committed and the next one was rejected
C8_Witness ==
    /\ lastOp.op = "deleteCategory" /\ lastOp.ret = "rejected"
    /\ lastOp.prev.op = "deleteCategory" /\ lastOp.prev.ret = "ok"

\* C9: every import entry point rejects malformed JSON and objects that lack
\* one of the keys transactions, categories, version: it reports failure and
\* leaves the storage untouched.
InvalidImport(file) == ~file.wellFormed \/ ~(FinanceKeys \subseteq file.value.keys)

C9_InvalidImportRejected ==
    [][ (lastOp'.op \in {"importData", "settingsImport"} /\ InvalidImport(lastOp'.arg)) =>
           lastOp'.ret = "failed" /\ ls' = ls ]_vars

\* ------------------------------- the generator as a pure function ----
GeneratorFrequencies == {"daily", "weekly", "monthly", "yearly"}

GeneratorLastProcessed == { <<2024, 1, 15>>, <<2024, 1, 31>>, <<2024, 2, 29>>, <<2024, 12, 30>> }

\* days from lastProcessed to the end date of the templates that have one
GeneratorEndOffsets == {10, 40}

\* the recurrence of a template first dated `date`: without end date, with an
\* end date, or without lastProcessed
GeneratorRecurring(date) ==
    { RecurringInfo(f, e, date) :
         f \in GeneratorFrequencies,
         e \in {NoDate} \cup { format(parseISO(date) + o) : o \in GeneratorEndOffsets } }
    \cup { RecurringInfo(f, NoDate, NoDate) : f \in GeneratorFrequencies }

GeneratorTemplate(date, recurring) ==
    Transaction(randomUUID(1), 100, "wages", date, "income", <<"salary">>, recurring)

\* a non-recurring transaction and a template, and the current date
GeneratorInput(date, recurring, elapsed) ==
    [transactions |-> << WithId(PlainExpense(date), randomUUID(0)),
                         GeneratorTemplate(date, recurring) >>,
     currentDate |-> parseISO(date) + elapsed]

InitGenerator ==
    /\ ls = EmptyStorage
    /\ financeData = defaultFinanceState
    /\ preferences = defaultUserPreferences
    /\ undoAvailable = FALSE
    /\ redoAvailable = FALSE
    /\ mountData = defaultFinanceState
    /\ phase = "input"
    /\ now = parseISO(StartDate)
    /\ nextUuid = 0
    /\ budget = 0
    /\ earlier = 0
    /\ lastOp = InitOp
    /\ \E l \in GeneratorLastProcessed, d \in 0..MaxElapsedDays :
          \E r \in GeneratorRecurring(l) : arg = GeneratorInput(l, r, d)
    /\ res = <<>>

\* one invocation of processRecurringTransactions(transactions, currentDate)
Generate ==
    /\ phase = "input"
    /\ phase' = "output"
    /\ res' = processRecurringTransactions(arg.transactions, arg.currentDate)
    /\ UNCHANGED <<ls, financeData, preferences, undoAvailable, redoAvailable, mountData,
                   now, nextUuid, budget, earlier, lastOp, arg>>

NextGenerator == Generate

SpecGenerator == InitGenerator /\ [][NextGenerator]_vars

\* C10: for a recurring transaction with a lastProcessed date (and no end
\* date passed) and k >= 1 periods elapsed at the current date, one invocation
\* emits exactly one instance for it, dated lastProcessed advanced by k
\* periods.  The periods elapsed are counted as section 4.4 counts them:
\* calendar days, full 7-day periods, the difference of year*12+month, the
\* difference of the years.
ElapsedPeriods(frequency, lastProcessed, currentDate) ==
    LET today == format(currentDate)
    IN  CASE frequency = "daily" -> currentDate - parseISO(lastProcessed)
          [] frequency = "weekly" -> (currentDate - parseISO(lastProcessed)) \div 7
          [] frequency = "monthly" ->
               (today[1] * 12 + today[2]) - (lastProcessed[1] * 12 + lastProcessed[2])
          [] frequency = "yearly" -> today[1] - lastProcessed[1]

\* a date k calendar months on: the same day of the month, or the last day of
\* the month when the month is shorter
AddMonths(date, k) ==
    LET total == date[1] * 12 + (date[2] - 1) + k
        y == total \div 12
        m == (total % 12) + 1
        d == IF date[3] > DaysInMonth(y, m) THEN DaysInMonth(y, m) ELSE date[3]
    IN  <<y, m, d>>

AdvancePeriods(frequency, lastProcessed, k) ==
    CASE frequency = "daily" -> format(parseISO(lastProcessed) + k)
      [] frequency = "weekly" -> format(parseISO(lastProcessed) + 7 * k)
      [] frequency = "monthly" -> AddMonths(lastProcessed, k)
      [] frequency = "yearly" -> AddMonths(lastProcessed, 12 * k)

InstancesOf(template, out) == SelectSeq(out, LAMBDA t : Head(t.id) = Head(template.id))

C10_CollapsedCatchUp ==
    phase = "output" =>
        \A i \in 1..Len(arg.transactions) :
            LET t == arg.transactions[i]
                r == t.recurring
                k == ElapsedPeriods(r.frequency, r.lastProcessed, arg.currentDate)
            IN  ( /\ r.frequency \in GeneratorFrequencies
                  /\ r.lastProcessed # NoDate
                  /\ (r.endDate = NoDate \/ ~StrGreater(format(arg.currentDate), r.endDate))
                  /\ k >= 1 )
                => /\ Len(InstancesOf(t, res)) = 1
                   /\ InstancesOf(t, res)[1].date = AdvancePeriods(r.frequency, r.lastProcessed, k)

\* C14: the generator emits nothing for a transaction without recurrence
\* info, without lastProcessed, or whose end date is strictly before the
\* current date; a transaction whose end date is the current date gets its
\* instance when a period has elapsed.
GeneratorSkips(t, currentDate) ==
    \/ t.recurring.frequency = "none"
    \/ t.recurring.lastProcessed = NoDate
    \/ t.recurring.endDate # NoDate /\ parseISO(t.recurring.endDate) < currentDate

C14_SkippedTransactions ==
    phase = "output" =>
        \A i \in 1..Len(arg.transactions) :
            LET t == arg.transactions[i]
                r == t.recurring
            IN  /\ GeneratorSkips(t, arg.currentDate) => InstancesOf(t, res) = <<>>
                /\ ( /\ r.frequency \in GeneratorFrequencies
                     /\ r.lastProcessed # NoDate
                     /\ r.endDate # NoDate
                     /\ parseISO(r.endDate) = arg.currentDate
                     /\ ElapsedPeriods(r.frequency, r.lastProcessed, arg.currentDate) >= 1 )
                   => Len(InstancesOf(t, res)) = 1

C14_Witness ==
    /\ phase = "output"
    /\ Len(res) = 1
    /\ arg.transactions[2].recurring.endDate # NoDate
    /\ parseISO(arg.transactions[2].recurring.endDate) = arg.currentDate

\* C15: every instance the generator emits equals its template in all fields
\* except id, date and recurring.lastProcessed; its id is the template's id
\* joined with the new date, its date and recurring.lastProcessed are the new
\* date; the instances of one template on different dates have different
\* ids, all different from the template's id.
GeneratorLaterDays == {1, 7, 31, 366}

C15_InstanceFields ==
    phase = "output" =>
        \A i \in 1..Len(res) :
            LET inst == res[i]
            IN  \E j \in 1..Len(arg.transactions) :
                   LET T == arg.transactions[j]
                   IN  /\ T.recurring.frequency # "none"
                       /\ inst = [T EXCEPT !.id = T.id \o inst.date,
                                           !.date = inst.date,
                                           !.recurring.lastProcessed = inst.date]
                       /\ inst.id # T.id
                       /\ \A o \in GeneratorLaterDays :
                             LET later == InstancesOf(T,
                                    processRecurringTransactions(arg.transactions,
                                                                 arg.currentDate + o))
                             IN  \A k \in 1..Len(later) :
                                    /\ later[k].id # T.id
                                    /\ later[k].date # inst.date => later[k].id # inst.id

C15_Witness ==
    /\ phase = "output"
    /\ Len(res) = 1
    /\ res[1].date # arg.transactions[2].date
    /\ \E o \in GeneratorLaterDays :
          LET later == processRecurringTransactions(arg.transactions, arg.currentDate + o)
          IN  later # <<>> /\ later[1].date # res[1].date

\* ------------------------------- the summaries as pure functions ----
SummaryPool ==
    << [amount |-> 100, description |-> "pay", date |-> <<2024, 1, 5>>, type |-> "income",
        categoryId |-> <<"salary">>, recurring |-> NoRecurring],
       [amount |-> 40, description |-> "lunch", date |-> <<2024, 1, 10>>, type |-> "expense",
        categoryId |-> <<"food">>, recurring |-> NoRecurring],
       [amount |-> 25, description |-> "dinner", date |-> <<2024, 1, 31>>, type |-> "expense",
        categoryId |-> <<"food">>, recurring |-> NoRecurring],
       [amount |-> 7, description |-> "refund", date |-> <<2024, 2, 1>>, type |-> "income",
        categoryId |-> <<"deleted">>, recurring |-> NoRecurring],
       [amount |-> 15, description |-> "fee", date |-> <<2024, 12, 31>>, type |-> "expense",
        categoryId |-> <<"salary">>, recurring |-> NoRecurring],
       [amount |-> 30, description |-> "bonus", date |-> <<2025, 1, 1>>, type |-> "income",
        categoryId |-> <<"salary">>, recurring |-> NoRecurring] >>

SummaryYears == {2024, 2025}

SummaryState(picks) ==
    FinanceState([i \in 1..Len(picks) |-> WithId(SummaryPool[picks[i]], randomUUID(i))],
                 defaultCategories, "1.0.0")

InitSummary ==
    /\ ls = EmptyStorage
    /\ financeData = defaultFinanceState
    /\ preferences = defaultUserPreferences
    /\ undoAvailable = FALSE
    /\ redoAvailable = FALSE
    /\ mountData = defaultFinanceState
    /\ phase = "input"
    /\ now = parseISO(StartDate)
    /\ nextUuid = 0
    /\ budget = 0
    /\ earlier = 0
    /\ lastOp = InitOp
    /\ \E n \in 0..MaxSummaryTransactions :
          \E picks \in [1..n -> 1..Len(SummaryPool)], month \in 0..11, year \in SummaryYears :
             arg = [data |-> SummaryState(picks), month |-> month, year |-> year]
    /\ res = <<>>

Unchanged == 
    UNCHANGED <<ls, financeData, preferences, undoAvailable, redoAvailable, mountData,
                now, nextUuid, budget, earlier, lastOp, arg>>

\* one invocation of getMonthSummary(data, month, year)
MonthSummary ==
    /\ phase = "input"
    /\ phase' = "month"
    /\ res' = getMonthSummary(arg.data, arg.month, arg.year)
    /\ Unchanged

\* one invocation of getYearSummary(data, year); the month of the input is
\* not an argument, the inputs with month 0 stand for the others
YearSummary ==
    /\ phase = "input"
    /\ arg.month = 0
    /\ phase' = "year"
    /\ res' = getYearSummary(arg.data, arg.year)
    /\ Unchanged

NextSummary == MonthSummary \/ YearSummary

SpecSummary == InitSummary /\ [][NextSummary]_vars

\* the transactions of the list dated in a calendar month (1..12) of a year,
\* and in a year, read off the date strings
DatedInMonth(transactions, month, year) ==
    { i \in 1..Len(transactions) :
         transactions[i].date[1] = year /\ transactions[i].date[2] = month }

DatedInYear(transactions, year) ==
    { i \in 1..Len(transactions) : transactions[i].date[1] = year }

OfType(transactions, I, type) == { i \in I : transactions[i].type = type }

RECURSIVE SumOf(_, _)
SumOf(transactions, I) ==
    IF I = {} THEN 0
    ELSE LET i == CHOOSE i \in I : TRUE
         IN  transactions[i].amount + SumOf(transactions, I \ {i})

\* C16: the month summary and the year summary report balance =
\* totalIncome - totalExpense, the totals being the sums of the amounts of
\* the income and of the expense transactions dated in the period.
C16_BalanceIsIncomeMinusExpense ==
    LET T == arg.data.transactions
        I == IF phase = "month" THEN DatedInMonth(T, arg.month + 1, arg.year)
             ELSE DatedInYear(T, arg.year)
    IN  phase \in {"month", "year"} =>
           /\ res.totalIncome = SumOf(T, OfType(T, I, "income"))
           /\ res.totalExpense = SumOf(T, OfType(T, I, "expense"))
           /\ res.balance = res.totalIncome - res.totalExpense
           /\ res.balance = SumOf(T, OfType(T, I, "income")) - SumOf(T, OfType(T, I, "expense"))

C16_Witness ==
    /\ phase = "year"
    /\ res.totalIncome > 0
    /\ res.totalExpense > res.totalIncome
    /\ \E i \in 1..Len(arg.data.transactions) : arg.data.transactions[i].date[1] # arg.year

\* C17: the totals of the year summary are the sums over the months 0..11 of
\* the totals of the month summaries, and every transaction dated in the
\* year is counted in exactly one month summary (the others in none).
RECURSIVE SumOfMonths(_, _, _, _)
SumOfMonths(data, year, months, income) ==
    IF months = {} THEN 0
    ELSE LET m == CHOOSE m \in months : TRUE
             summary == getMonthSummary(data, m, year)
         IN  (IF income THEN summary.totalIncome ELSE summary.totalExpense)
             + SumOfMonths(data, year, months \ {m}, income)

\* the months of the year whose summary counts the transaction
MonthsCounting(data, year, transaction) ==
    { m \in 0..11 :
         \E k \in 1..Len(data.transactions) :
            /\ data.transactions[k].id = transaction.id
            /\ Len(SelectSeq(getTransactionsInRange(data.transactions,
                       [startDate |-> startOfMonth(MakeDate(year, m, 1)),
                        endDate |-> endOfMonth(MakeDate(year, m, 1))]),
                   LAMBDA t : t.id = transaction.id)) = 1 }

C17_YearIsSumOfMonths ==
    phase = "year" =>
        /\ res.totalIncome = SumOfMonths(arg.data, arg.year, 0..11, TRUE)
        /\ res.totalExpense = SumOfMonths(arg.data, arg.year, 0..11, FALSE)
        /\ \A i \in 1..Len(arg.data.transactions) :
              Cardinality(MonthsCounting(arg.data, arg.year, arg.data.transactions[i]))
                 = IF i \in DatedInYear(arg.data.transactions, arg.year) THEN 1 ELSE 0

C17_Witness ==
    /\ phase = "year"
    /\ Cardinality({ m \in 1..12 : res.monthlySummaries[m].totalExpense > 0 }) >= 2
    /\ \E m \in 1..12 : res.monthlySummaries[m].totalIncome > 0
    /\ \E i \in 1..Len(arg.data.transactions) : arg.data.transactions[i].date = <<arg.year, 12, 31>>

AnomalyTransaction(amount, date, type, categoryId) ==
    [amount |-> amount, description |-> "item", date |-> date, type |-> type,
     categoryId |-> categoryId, recurring |-> NoRecurring]

AnomalyPool ==
    << AnomalyTransaction(9, <<2024, 1, 10>>, "expense", <<"food">>),
       AnomalyTransaction(10, <<2024, 1, 20>>, "expense", <<"food">>),
       AnomalyTransaction(15, <<2024, 2, 5>>, "expense", <<"food">>),
       AnomalyTransaction(14, <<2024, 2, 25>>, "expense", <<"food">>),
       AnomalyTransaction(30, <<2024, 2, 10>>, "expense", <<"housing">>),
       AnomalyTransaction(45, <<2024, 3, 1>>, "expense", <<"housing">>),
       AnomalyTransaction(100, <<2024, 3, 15>>, "income", <<"food">>),
       AnomalyTransaction(20, <<2024, 3, 2>>, "expense", <<"food">>) >>

InitAnomalies ==
    /\ ls = EmptyStorage
    /\ financeData = defaultFinanceState
    /\ preferences = defaultUserPreferences
    /\ undoAvailable = FALSE
    /\ redoAvailable = FALSE
    /\ mountData = defaultFinanceState
    /\ phase = "input"
    /\ now = parseISO(StartDate)
    /\ nextUuid = 0
    /\ budget = 0
    /\ earlier = 0
    /\ lastOp = InitOp
    /\ \E n \in 0..MaxAnomalyTransactions :
          \E picks \in [1..n -> 1..Len(AnomalyPool)] :
             arg = [transactions |->
                       [i \in 1..n |-> WithId(AnomalyPool[picks[i]], randomUUID(i))],
                    categories |-> defaultCategories]
    /\ res = <<>>

\* one invocation of detectAnomalies(transactions, categories)
Anomalies ==
    /\ phase = "input"
    /\ phase' = "anomalies"
    /\ res' = detectAnomalies(arg.transactions, arg.categories)
    /\ Unchanged

NextAnomalies == Anomalies

SpecAnomalies == InitAnomalies /\ [][NextAnomalies]_vars

\* the year-months with expense data, read off the date strings
ExpenseMonths(transactions) ==
    { <<transactions[i].date[1], transactions[i].date[2]>> :
         i \in { j \in 1..Len(transactions) : transactions[j].type = "expense" } }

\* C19: detectAnomalies returns the empty list whenever the expense
\* transactions span fewer than two distinct year-months, whatever income
\* transactions there are.
C19_NoAnomalyBelowTwoMonths ==
    (phase = "anomalies" /\ Cardinality(ExpenseMonths(arg.transactions)) < 2)
       => res = <<>>

C19_Witness ==
    /\ phase = "anomalies"
    /\ Cardinality(ExpenseMonths(arg.transactions)) = 1
    /\ \E i \in 1..Len(arg.transactions) :
          /\ arg.transactions[i].type = "income"
          /\ <<arg.transactions[i].date[1], arg.transactions[i].date[2]>>
                \notin ExpenseMonths(arg.transactions)
    /\ res = <<>>

\* C20: with M the most recent and P the second most recent year-month with
\* expense data, the reports are exactly the categories with expenses in M
\* whose expense total in P is at least 10 and whose total in M is at least
\* 1.5 times the total in P, each once and with the M total as amount.
ExpenseTotal(transactions, monthYear, categoryId) ==
    SumOf(transactions,
          { i \in 1..Len(transactions) :
               /\ transactions[i].type = "expense"
               /\ <<transactions[i].date[1], transactions[i].date[2]>> = monthYear
               /\ transactions[i].categoryId = categoryId })

LatestMonth(months) ==
    CHOOSE m \in months : \A o \in months : o[1] * 12 + o[2] <= m[1] * 12 + m[2]

ExpectedAnomalies(transactions) ==
    LET M == LatestMonth(ExpenseMonths(transactions))
        P == LatestMonth(ExpenseMonths(transactions) \ {M})
        inM == { transactions[i].categoryId :
                    i \in { j \in 1..Len(transactions) :
                               /\ transactions[j].type = "expense"
                               /\ <<transactions[j].date[1], transactions[j].date[2]>> = M } }
    IN  { c \in inM : /\ ExpenseTotal(transactions, P, c) >= 10
                      /\ 2 * ExpenseTotal(transactions, M, c)
                            >= 3 * ExpenseTotal(transactions, P, c) }

CategorizeDescriptions ==
    { <<"P","a","y","c","h","e","c","k">>,
      <<"G","A","S"," ","b","i","l","l">>,
      <<"U","b","e","r">>,
      <<"c","a","r","d"," ","f","e","e">>,
      <<"G","i","f","t"," ","s","h","o","p">>,
      <<"x","y","z">>,
      <<>> }

\* the default list; the list without its two fallback categories; the list
\* with utilities moved to the front; the list after addCategory of an expense
\* category named "Salary"; no category
CategorizeLists ==
    { defaultCategories,
      SelectSeq(defaultCategories, LAMBDA c : Len(c.id) = 1),
      <<defaultCategories[8]>> \o defaultCategories,
      Append(defaultCategories, Category(<<"salary">>, <<"Salary">>, "expense")),
      <<>> }

CategorizeAmounts == {5, 500}

InitCategorize ==
    /\ ls = EmptyStorage
    /\ financeData = defaultFinanceState
    /\ preferences = defaultUserPreferences
    /\ undoAvailable = FALSE
    /\ redoAvailable = FALSE
    /\ mountData = defaultFinanceState
    /\ phase = "input"
    /\ now = parseISO(StartDate)
    /\ nextUuid = 0
    /\ budget = 0
    /\ earlier = 0
    /\ lastOp = InitOp
    /\ \E d \in CategorizeDescriptions, a \in CategorizeAmounts,
          t \in {"income", "expense"}, c \in CategorizeLists :
             arg = [description |-> d, amount |-> a, type |-> t, categories |-> c]
    /\ res = <<>>

\* one invocation of autoCategorizeTransaction
Categorize ==
    /\ phase = "input"
    /\ phase' = "categorized"
    /\ res' = autoCategorizeTransaction(arg.description, arg.amount, arg.type,
                                        arg.categories)
    /\ Unchanged

NextCategorize == Categorize

SpecCategorize == InitCategorize /\ [][NextCategorize]_vars

\* the keyword occurs in the description at some offset, letters compared
\* without their case
OccursIn(keyword, description) ==
    \E o \in 0..(Len(description) - Len(keyword)) :
       \A j \in 1..Len(keyword) :
          toLowerCaseChars(<<description[o + j]>>) = <<keyword[j]>>

\* the positions in the list of the categories of the type with a keyword hit
KeywordHits(description, type, categories) ==
    { i \in 1..Len(categories) :
         /\ categories[i].type = type
         /\ \E k \in 1..Len(keywordMap) :
               /\ keywordMap[k].id = categories[i].id
               /\ \E w \in 1..Len(keywordMap[k].keywords) :
                     OccursIn(keywordMap[k].keywords[w], description) }

ExpectedCategory(description, type, categories) ==
    LET hits == KeywordHits(description, type, categories)
        fallback == IF type = "income" THEN <<"other", "income">> ELSE <<"other", "expense">>
    IN  IF hits # {}
        THEN <<categories[CHOOSE i \in hits : \A j \in hits : i <= j].id>>
        ELSE IF \E i \in 1..Len(categories) :
                   categories[i].id = fallback /\ categories[i].type = type
        THEN <<fallback>>
        ELSE <<>>

DistinctIds(s) == \A i, j \in 1..Len(s) : s[i].id = s[j].id => i = j

FaultStorages ==
    LET s1 == saveFinanceData(EmptyStorage, EarlierState(1))
        s2 == saveFinanceData(s1, EarlierState(2))
        s3 == undo(s2).ls
    IN  { EmptyStorage, s1, s2, s3,
          saveUserPreferences(s3, [defaultUserPreferences EXCEPT !.currency = "EUR"]) }

Faults ==
    { NoFault, [kind |-> "getItem", at |-> 0], [kind |-> "corrupt", at |-> 0] }
    \cup { [kind |-> "setItem", at |-> k] : k \in 1..MaxFailAt }

StorageOps ==
    { "getFinanceData", "saveFinanceData", "getUserPreferences",
      "saveUserPreferences", "undo", "redo" }

InitStorage ==
    /\ ls \in FaultStorages
    /\ financeData = defaultFinanceState
    /\ preferences = defaultUserPreferences
    /\ undoAvailable = FALSE
    /\ redoAvailable = FALSE
    /\ mountData = defaultFinanceState
    /\ phase = "input"
    /\ now = parseISO(StartDate)
    /\ nextUuid = 0
    /\ budget = 0
    /\ earlier = 0
    /\ lastOp = InitOp
    /\ \E o \in StorageOps, f \in Faults : arg = [op |-> o, fault |-> f]
    /\ res = <<>>

\* the call returns r.ret or throws, leaving r.ls in localStorage
Called(r) ==
    /\ phase = "input"
    /\ phase' = "called"
    /\ ls' = r.ls
    /\ res' = [ret |-> r.ret, threw |-> r.threw]
    /\ UNCHANGED <<financeData, preferences, undoAvailable, redoAvailable, mountData,
                   now, nextUuid, budget, earlier, lastOp, arg>>

CallGetFinanceData ==
    /\ arg.op = "getFinanceData"
    /\ Called([ls |-> ls, ret |-> getFinanceDataUnder(ls, arg.fault), threw |-> FALSE])

CallSaveFinanceData ==
    /\ arg.op = "saveFinanceData"
    /\ Called(saveFinanceDataUnder(ls, EarlierState(3), arg.fault))

CallGetUserPreferences ==
    /\ arg.op = "getUserPreferences"
    /\ Called([ls |-> ls, ret |-> getUserPreferencesUnder(ls, arg.fault), threw |-> FALSE])

CallSaveUserPreferences ==
    /\ arg.op = "saveUserPreferences"
    /\ Called(saveUserPreferencesUnder(
                  ls, [defaultUserPreferences EXCEPT !.themeMode = "dark"], arg.fault))

CallUndo ==
    /\ arg.op = "undo"
    /\ Called(undoUnder(ls, arg.fault))

CallRedo ==
    /\ arg.op = "redo"
    /\ Called(redoUnder(ls, arg.fault))

NextStorage ==
    \/ CallGetFinanceData
    \/ CallSaveFinanceData
    \/ CallGetUserPreferences
    \/ CallSaveUserPreferences
    \/ CallUndo
    \/ CallRedo

SpecStorage == InitStorage /\ [][NextStorage]_vars

\* C23: none of the six storage operations lets a localStorage failure out, and
\* getFinanceData under a failing or corrupt read returns the default state.
C23_FailuresContained ==
    phase = "called" =>
        /\ ~res.threw
        /\ (arg.op = "getFinanceData" /\ arg.fault.kind \in {"getItem", "corrupt"}
               => res.ret = defaultFinanceState)

\* ---------------------------------------- dates of generated instances ----
\* inst was emitted for the transaction T of the input
EmittedBy(T, inst) == T.recurring.frequency # "none" /\ inst.id = T.id \o inst.date

\* C27: every instance one invocation emits is dated strictly after its
\* template's lastProcessed and not after the current date of the invocation.
C27_InstanceDateInRange ==
    phase = "output" =>
        \A i \in 1..Len(res) :
            \A j \in 1..Len(arg.transactions) :
                LET T == arg.transactions[j]
                IN  EmittedBy(T, res[i]) =>
                       /\ parseISO(res[i].date) > parseISO(T.recurring.lastProcessed)
                       /\ parseISO(res[i].date) <= arg.currentDate

\* C28: no instance emitted for a template with an end date is dated after
\* that end date.
C28_InstanceNotAfterEndDate ==
    phase = "output" =>
        \A i \in 1..Len(res) :
            \A j \in 1..Len(arg.transactions) :
                LET T == arg.transactions[j]
                IN  (EmittedBy(T, res[i]) /\ T.recurring.endDate # NoDate) =>
                       parseISO(res[i].date) <= parseISO(T.recurring.endDate)

\* ------------------------------------ the provider's recurring check ----
RecurringChecks == {"mount", "timer"}

\* inst is the instance the generator emits for the template T
EmittedFor(T, inst) ==
    /\ T.recurring.frequency # "none"
    /\ inst.id = T.id \o inst.date

\* C11: after a recurring check of the provider that emitted instances, the
\* stored list contains every emitted instance, and for every template T of
\* the stored list with a newly stored instance, the stored T has
\* recurring.lastProcessed equal to the instance's date.
C11_LastProcessedWrittenBack ==
    [][ (lastOp'.op \in RecurringChecks /\ lastOp'.ret = "generated") =>
          LET before == Range(getFinanceData(ls).transactions)
              after == Range(getFinanceData(ls').transactions)
              emitted == Range(processRecurringTransactions(mountData.transactions, now'))
          IN  /\ emitted \subseteq after
              /\ \A inst \in after \ before : \A T \in before :
                    EmittedFor(T, inst) =>
                       \E T2 \in after : /\ T2.id = T.id
                                         /\ T2.recurring.lastProcessed = inst.date
    ]_vars

\* C12: the check that runs when the page is loaded again on the same date,
\* directly after a check that generated instances, generates nothing and
\* leaves the stored finance state, both stacks and the provider's finance
\* state unchanged.
C12_CheckIdempotent ==
    [][ ( /\ lastOp'.op = "mount"
          /\ lastOp.op = "reload" /\ lastOp.arg = 0
          /\ lastOp.prev.op \in RecurringChecks /\ lastOp.prev.ret = "generated" )
        => /\ lastOp'.ret = "nothing"
           /\ UNCHANGED <<ls, financeData>>
    ]_vars

\* C13: every transaction and every category stored immediately before a
\* timer check is still stored immediately after it, and likewise in the
\* provider's finance state.
IdsOf(s) == { s[i].id : i \in 1..Len(s) }

C13_TimerKeepsState ==
    [][ lastOp'.op = "timer" =>
          /\ IdsOf(getFinanceData(ls).transactions) \subseteq IdsOf(getFinanceData(ls').transactions)
          /\ IdsOf(getFinanceData(ls).categories) \subseteq IdsOf(getFinanceData(ls').categories)
          /\ IdsOf(financeData.transactions) \subseteq IdsOf(financeData'.transactions)
          /\ IdsOf(financeData.categories) \subseteq IdsOf(financeData'.categories)
    ]_vars

\* ----------------------------------------------- provider invariants ----
\* C22: an updateTransaction leaves the type of the transaction stored under
\* every id as it was.
C22_TypeImmutable ==
    [][ lastOp'.op = "updateTransaction" =>
          \A t \in Range(getFinanceData(ls).transactions) :
             \A u \in Range(getFinanceData(ls').transactions) :
                u.id = t.id => u.type = t.type
    ]_vars

\* C24: undo and redo leave the stored and the in-memory preferences as they
\* were, and updatePreferences leaves the finance state (stored and in memory),
\* the undo stack and the redo stack as they were.
C24_PreferencesOutsideUndo ==
    [][ /\ lastOp'.op \in {"undo", "redo"} =>
              /\ preferences' = preferences
              /\ ls'.prefs = ls.prefs
        /\ lastOp'.op = "updatePreferences" =>
              /\ financeData' = financeData
              /\ ls'.data = ls.data
              /\ ls'.undo = ls.undo
              /\ ls'.redo = ls.redo
      ]_vars

\* preferences were changed after a mutation, and the mutation was then undone
C24_Witness ==
    /\ lastOp.op = "undo"
    /\ lastOp.ret = "ok"
    /\ lastOp.prev.op = "updatePreferences"
    /\ preferences # defaultUserPreferences
    /\ ls.prefs = <<preferences>>
    /\ Len(ls.redo) > 0

\* --------------------------------- sessions of recurring transactions ----
\* The form submitted with today's date or with yesterday's
RecurringInputs ==
    { PlainExpense(StartDate), DailyIncome(StartDate),
      DailyIncome(format(parseISO(StartDate) - 1)) }

InitRecurring == Init /\ earlier = 0

\* addTransaction, the recurring checks (on a page load, by the timer), undo
\* and redo, on one day or on consecutive days
NextRecurring ==
    \/ Mount
    \/ TimerTick
    \/ \E t \in RecurringInputs : addTransaction(t)
    \/ undoAction
    \/ redoAction
    \/ \E d \in 0..1 : Reload(d)

SpecRecurring == InitRecurring /\ [][NextRecurring]_vars

\* C25: the ids of the stored transactions are pairwise distinct.
C25_DistinctTransactionIds == DistinctIds(getFinanceData(ls).transactions)

\* randomUUID ids have five segments; a generated id extends its template's
UserCreated(t) == Len(t.id) = Len(randomUUID(0))

Descends(t, T) == Len(t.id) > Len(T.id) /\ SubSeq(t.id, 1, Len(T.id)) = T.id

\* C26: for every stored user-created recurring transaction T and every date,
\* the stored transactions generated from T or from its instances and dated
\* that date are one and the same generated transaction.
C26_OneInstancePerDate ==
    LET stored == getFinanceData(ls).transactions
    IN  \A i, j, k \in 1..Len(stored) :
           ( /\ UserCreated(stored[i])
             /\ stored[i].recurring.frequency # "none"
             /\ Descends(stored[j], stored[i])
             /\ Descends(stored[k], stored[i])
             /\ stored[j].date = stored[k].date )
           => stored[j].id = stored[k].id

\* ------------------------------------------- sessions of category edits ----
\* addCategory, updateCategory, deleteCategory, undo and redo from the default
\* state
NextCategories ==
    \/ Mount
    \/ \E c \in CategoryInputs : addCategory(c)
    \/ \E c \in StoredCategories :
          c.id \in CategoryIdInputs /\ updateCategory([c EXCEPT !.name = NewCategoryName])
    \/ \E c \in StoredCategories : c.id \in CategoryIdInputs /\ deleteCategory(c.id)
    \/ undoAction
    \/ redoAction

SpecCategories == InitRecurring /\ [][NextCategories]_vars

\* C29: the ids of the stored categories are pairwise distinct.
C29_DistinctCategoryIds == DistinctIds(getFinanceData(ls).categories)

\* -------------------------------------------------- undo / redo flags ----
\* C30: after every mutation, undoAction, redoAction and recurring check (on
\* startup or by the timer) that completes, canUndo is true exactly when the
\* stored undo stack is non-empty, and canRedo exactly when the stored redo
\* stack is non-empty.
C30_FlagsMatchStacks ==
    [][ ( /\ lastOp'.op \in UserMutations \cup {"undo", "redo", "mount", "timer"}
          /\ phase' = "ready" )
        => /\ undoAvailable' <=> Len(ls'.undo) > 0
           /\ redoAvailable' <=> Len(ls'.redo) > 0
      ]_vars

====
